---- MODULE Spec2Model ----
(***************************************************************************)
(* Model of StackedPg._calcStacked (src/stackedpg.py): the aggregation of  *)
(* a folder of periodogram files into the AND / OR stacked periodograms.   *)
(*                                                                         *)
(* Floating point values are modelled as exact rationals extended with the *)
(* IEEE special values: a value is a pair <<n, d>> with d >= 0 in lowest   *)
(* terms; <<0, 0>> is NaN, <<1, 0>> is +inf and <<-1, 0>> is -inf.  Zero   *)
(* is unsigned.  Rounding is not modelled.                                 *)
(***************************************************************************)
EXTENDS Integers, Sequences, FiniteSets, TLC

\* Largest number of regular files os.listdir finds in the folder.
MaxFiles == 3

\* Python's None.  An ndarray that reaches frecs, stacked_and, stacked_or or
\* stacked always has at least two rows, so the empty tuple is free for it.
None == << >>

----------------------------------------------------------------------------
(* Floating point arithmetic *)

Abs(n) == IF n < 0 THEN -n ELSE n

Sign(n) == IF n < 0 THEN -1 ELSE IF n = 0 THEN 0 ELSE 1

RECURSIVE Gcd(_, _)
Gcd(a, b) == IF b = 0 THEN a ELSE Gcd(b, a % b)

\* Canonical form of the quotient n / d, d >= 0.
Canon(n, d) ==
    IF d = 0 THEN << Sign(n), 0 >>
    ELSE LET g == Gcd(Abs(n), d) IN << n \div g, d \div g >>

NaN == << 0, 0 >>
Inf == << 1, 0 >>
Zero == << 0, 1 >>
One == << 1, 1 >>
Two == << 2, 1 >>

Num(i) == << i, 1 >>

IsNaN(a) == a = NaN
IsFinite(a) == a[2] # 0

Neg(a) == << -a[1], a[2] >>

Add(a, b) ==
    IF a[2] = 0 /\ b[2] = 0
    THEN IF a = b THEN a ELSE NaN
    ELSE Canon(a[1] * b[2] + b[1] * a[2], a[2] * b[2])

Sub(a, b) == Add(a, Neg(b))

Mul(a, b) == Canon(a[1] * b[1], a[2] * b[2])

\* a / b; a zero divisor counts as +0: x/0 is +-inf, 0/0 is NaN.
Div(a, b) ==
    LET s == IF b[1] < 0 THEN -1 ELSE 1
    IN  Canon(s * a[1] * b[2], a[2] * Abs(b[1]))

\* Elementwise array operations.
ArrMul(u, v) == [i \in 1..Len(u) |-> Mul(u[i], v[i])]
ArrAdd(u, v) == [i \in 1..Len(u) |-> Add(u[i], v[i])]
ArrDiv(u, c) == [i \in 1..Len(u) |-> Div(u[i], c)]

RECURSIVE SumTo(_, _)
SumTo(t, k) == IF k = 0 THEN Zero ELSE Add(SumTo(t, k - 1), t[k])

\* np.trapz(y=y, x=x): (diff(x) * (y[1:] + y[:-1]) / 2.0).sum()
trapz(y, x) ==
    LET t == [i \in 1..(Len(y) - 1) |->
                Div(Mul(Sub(x[i + 1], x[i]), Add(y[i + 1], y[i])), Two)]
    IN  SumTo(t, Len(y) - 1)

----------------------------------------------------------------------------
(* The folder: plain text files of space separated fields *)

\* A field of a line: a numeral, or text that is not a number.
N(v) == << "num", v >>
Txt == << "txt", 0 >>

Row(fs) == [comment |-> FALSE, fields |-> fs]
Hdr == [comment |-> TRUE, fields |-> << Txt, Txt >>]

File(ls) == [readable |-> TRUE, lines |-> ls]

\* Table of three rows on the frequencies f with the powers p.
Table3(f, p) ==
    File(<< Row(<< N(f[1]), N(p[1]) >>), Row(<< N(f[2]), N(p[2]) >>),
            Row(<< N(f[3]), N(p[3]) >>) >>)

\* The files a folder may hold, by name.
Catalogue ==
    [ ones      |-> File(<< Hdr, Row(<< N(1), N(1) >>), Row(<< N(2), N(1) >>),
                            Row(<< N(3), N(1) >>) >>),
      twos      |-> Table3(<< 1, 2, 3 >>, << 2, 2, 2 >>),
      high      |-> Table3(<< 1, 2, 3 >>, << 0, 0, 4 >>),
      low       |-> Table3(<< 1, 2, 3 >>, << 4, 0, 0 >>),
      extra     |-> File(<< Row(<< N(1), N(1), N(7) >>), Row(<< N(2), N(3), N(7) >>),
                            Row(<< N(3), N(1), N(7) >>) >>),
      flat      |-> Table3(<< 1, 2, 3 >>, << 0, 0, 0 >>),
      shifted   |-> Table3(<< 1, 2, 4 >>, << 1, 1, 1 >>),
      short     |-> File(<< Row(<< N(1), N(1) >>), Row(<< N(2), N(1) >>) >>),
      words     |-> File(<< Row(<< N(1), N(2) >>), Row(<< N(2), Txt >>),
                            Row(<< N(3), N(4) >>) >>),
      ragged    |-> File(<< Row(<< N(1), N(2) >>), Row(<< N(2) >>),
                            Row(<< N(3), N(4) >>) >>),
      onecol    |-> File(<< Row(<< N(1) >>), Row(<< N(2) >>), Row(<< N(3) >>) >>),
      onerow    |-> File(<< Row(<< N(1), N(2) >>) >>),
      empty     |-> File(<< >>),
      locked    |-> [readable |-> FALSE, lines |-> << >>] ]

FileNames == DOMAIN Catalogue

----------------------------------------------------------------------------
(* np.genfromtxt and the indexing of its result *)

\* Conversion of one field to float: text that is not a number becomes nan.
ToFloat(tok) == IF tok[1] = "num" THEN Num(tok[2]) ELSE NaN

\* np.genfromtxt(path, comments, delimiter): exc is the exception raised
\* ("" when none), ndim and data describe the returned array.  A result of one
\* row or of one column is squeezed to one dimension; a file without data
\* lines gives an empty one-dimensional array.
genfromtxt(file) ==
    LET rows == SelectSeq(file.lines, LAMBDA l : ~l.comment)
    IN  IF ~file.readable
        THEN [exc |-> "OSError", ndim |-> 0, data |-> << >>]
        ELSE IF rows = << >>
        THEN [exc |-> "", ndim |-> 1, data |-> << >>]
        ELSE IF \E i \in 1..Len(rows) : Len(rows[i].fields) # Len(rows[1].fields)
        THEN [exc |-> "ValueError", ndim |-> 0, data |-> << >>]
        ELSE [exc |-> "",
              ndim |-> IF Len(rows) = 1 \/ Len(rows[1].fields) = 1 THEN 1 ELSE 2,
              data |-> [i \in 1..Len(rows) |->
                          [j \in 1..Len(rows[i].fields) |-> ToFloat(rows[i].fields[j])]]]

\* new_pg[:, k] of a two-dimensional array (k counted from 0).
Column(arr, k) == [i \in 1..Len(arr.data) |-> arr.data[i][k + 1]]

\* The individual periodogram after line 86: exc is the exception raised by
\* genfromtxt or by new_pg[:, 1] on an array of one dimension.
NormalizedPg(name) ==
    LET new_pg == genfromtxt(Catalogue[name])
    IN  IF new_pg.exc # ""
        THEN [exc |-> new_pg.exc, frec |-> << >>, power |-> << >>]
        ELSE IF new_pg.ndim < 2
        THEN [exc |-> "IndexError", frec |-> << >>, power |-> << >>]
        ELSE [exc |-> "",
              frec |-> Column(new_pg, 0),
              power |-> ArrDiv(Column(new_pg, 1),
                               trapz(Column(new_pg, 1), Column(new_pg, 0)))]

----------------------------------------------------------------------------
(* The loop body and the final normalization, as functions of the locals *)

\* The product taken as a sum.
FoldAnd_Added(acc, power) == ArrAdd(acc, power)

\* stacked_and * new_pg[:, 1]
FoldAnd(acc, power) == ArrMul(acc, power)

\* The sum replaced by its last term.
FoldOr_Assigned(acc, power) == power

\* stacked_or + new_pg[:, 1]
FoldOr(acc, power) == ArrAdd(acc, power)

\* The loop body with frecs taken from every file instead of the first.
TryFile_Regrid(st, f) ==
    LET pg == NormalizedPg(f)
        exc == IF pg.exc # "" THEN pg.exc
               ELSE IF st.frecs # None /\ Len(st.stacked_and) # Len(pg.power)
                    THEN "ValueError"
                    ELSE ""
    IN  IF exc # ""
        THEN [st EXCEPT !.error_files = Append(@, << f, exc >>)]
        ELSE IF st.frecs = None
        THEN [st EXCEPT !.frecs = pg.frec,
                        !.stacked_and = pg.power,
                        !.stacked_or = pg.power]
        ELSE [st EXCEPT !.frecs = pg.frec,
                        !.stacked_and = ArrMul(@, pg.power),
                        !.stacked_or = ArrAdd(@, pg.power)]

\* One pass of the try / except of the loop over the file f; st holds frecs,
\* stacked_and, stacked_or and error_files.  Arrays of different lengths do
\* not broadcast (no array here has length one) and raise ValueError.
TryFile(st, f) ==
    LET pg == NormalizedPg(f)
        exc == IF pg.exc # "" THEN pg.exc
               ELSE IF st.frecs # None /\ Len(st.stacked_and) # Len(pg.power)
                    THEN "ValueError"
                    ELSE ""
    IN  IF exc # ""
        THEN [st EXCEPT !.error_files = Append(@, << f, exc >>)]
        ELSE IF st.frecs = None
        THEN [st EXCEPT !.frecs = pg.frec,
                        !.stacked_and = pg.power,
                        !.stacked_or = pg.power]
        ELSE [st EXCEPT !.stacked_and = FoldAnd(@, pg.power),
                        !.stacked_or = FoldOr(@, pg.power)]

\* Lines 97-100 when frecs is an array: the three columns of self.stacked.
StackedTable(frecs, s_and, s_or) ==
    LET a == ArrDiv(s_and, trapz(s_and, frecs))
        o == ArrDiv(s_or, trapz(s_or, frecs))
    IN  [i \in 1..Len(frecs) |-> << frecs[i], a[i], o[i] >>]

----------------------------------------------------------------------------
(* The run of the constructor: __init__ calling _calcStacked *)

VARIABLES
    pg_files,     \* the regular files of the folder, in os.listdir order
    pos,          \* number of files the for loop has gone through
    frecs,        \* local frecs: None or the frequency grid
    stacked_and,  \* local stacked_and: None or the running product
    stacked_or,   \* local stacked_or: None or the running sum
    error_files,  \* self.error_files: (file name, str(e)) pairs
    stacked,      \* self.stacked: None or the rows (frec, AND, OR)
    pc,           \* "loop", "returned" (the constructor returned the object)
                  \* or "raised" (the constructor raised: no object exists)
    raised        \* class of the exception leaving the constructor, or ""

vars == << pg_files, pos, frecs, stacked_and, stacked_or, error_files,
           stacked, pc, raised >>

\* Sequences of length n of distinct file names.
Listings(n) ==
    { s \in [1..n -> FileNames] : \A a, b \in 1..n : a # b => s[a] # s[b] }

\* Lines 71, 72 and 78-81.
Init ==
    /\ pg_files \in UNION { Listings(n) : n \in 0..MaxFiles }
    /\ pos = 0
    /\ frecs = None
    /\ stacked_and = None
    /\ stacked_or = None
    /\ error_files = << >>
    /\ stacked = None
    /\ pc = "loop"
    /\ raised = ""

Locals == [frecs |-> frecs, stacked_and |-> stacked_and,
           stacked_or |-> stacked_or, error_files |-> error_files]

\* Lines 82-95: one iteration of the for loop.
LoopFile ==
    /\ pc = "loop"
    /\ pos < Len(pg_files)
    /\ LET st == TryFile(Locals, pg_files[pos + 1])
       IN  /\ frecs' = st.frecs
           /\ stacked_and' = st.stacked_and
           /\ stacked_or' = st.stacked_or
           /\ error_files' = st.error_files
    /\ pos' = pos + 1
    /\ UNCHANGED << pg_files, stacked, pc, raised >>

\* Lines 97-100 after at least one file was folded: the divisions do not
\* raise (a zero or nan divisor gives nan or inf), self.stacked is set and
\* the constructor returns.
Finalize ==
    /\ pc = "loop"
    /\ pos = Len(pg_files)
    /\ frecs # None
    /\ stacked' = StackedTable(frecs, stacked_and, stacked_or)
    /\ pc' = "returned"
    /\ UNCHANGED << pg_files, pos, frecs, stacked_and, stacked_or,
                    error_files, raised >>

\* Line 97 when no file was folded: np.trapz(y=None, x=None) raises, nothing
\* catches it and the exception leaves _calcStacked and __init__.
FinalizeNone ==
    /\ pc = "loop"
    /\ pos = Len(pg_files)
    /\ frecs = None
    /\ pc' = "raised"
    /\ raised' = "Exception"
    /\ UNCHANGED << pg_files, pos, frecs, stacked_and, stacked_or,
                    error_files, stacked >>

Next == LoopFile \/ Finalize \/ FinalizeNone

Spec == Init /\ [][Next]_vars

\* The whole of _calcStacked over the listing files, as a function.
RECURSIVE LoopOver(_, _)
LoopOver(files, k) ==
    IF k = 0
    THEN [frecs |-> None, stacked_and |-> None, stacked_or |-> None,
          error_files |-> << >>]
    ELSE TryFile(LoopOver(files, k - 1), files[k])

calcStacked(files) ==
    LET st == LoopOver(files, Len(files))
    IN  IF st.frecs = None
        THEN [raised |-> "Exception", stacked |-> None,
              error_files |-> st.error_files]
        ELSE [raised |-> "",
              stacked |-> StackedTable(st.frecs, st.stacked_and, st.stacked_or),
              error_files |-> st.error_files]

TypeOK ==
    /\ pos \in 0..Len(pg_files)
    /\ pc \in {"loop", "returned", "raised"}

----------------------------------------------------------------------------
(* Vocabulary of the properties *)

\* The data lines of a file, and its first two columns as written.
DataLines(name) == SelectSeq(Catalogue[name].lines, LAMBDA l : ~l.comment)

IsNumeric(name) ==
    \A i \in 1..Len(DataLines(name)) :
        \A j \in 1..Len(DataLines(name)[i].fields) :
            DataLines(name)[i].fields[j][1] = "num"

\* A rectangular numeric table of at least two rows and two columns.
IsTable(name) ==
    /\ Catalogue[name].readable
    /\ Len(DataLines(name)) >= 2
    /\ \A i \in 1..Len(DataLines(name)) :
          Len(DataLines(name)[i].fields) = Len(DataLines(name)[1].fields)
    /\ Len(DataLines(name)[1].fields) >= 2

WrittenFrec(name) ==
    [i \in 1..Len(DataLines(name)) |-> ToFloat(DataLines(name)[i].fields[1])]

WrittenPower(name) ==
    [i \in 1..Len(DataLines(name)) |-> ToFloat(DataLines(name)[i].fields[2])]

Integral(name) == trapz(WrittenPower(name), WrittenFrec(name))

BadIntegral(v) == v = Zero \/ ~IsFinite(v)

\* A valid input: a numeric table whose power has a finite non-zero integral.
Valid(name) == IsTable(name) /\ IsNumeric(name) /\ ~BadIntegral(Integral(name))

UnitPower(name) == ArrDiv(WrittenPower(name), Integral(name))

AllValidOneGrid ==
    /\ Len(pg_files) >= 1
    /\ \A j \in 1..Len(pg_files) :
          Valid(pg_files[j]) /\ WrittenFrec(pg_files[j]) = WrittenFrec(pg_files[1])

\* Product and sum at grid point i of the unit powers of the first k files.
RECURSIVE ProductAt(_, _)
ProductAt(k, i) ==
    IF k = 0 THEN One ELSE Mul(ProductAt(k - 1, i), UnitPower(pg_files[k])[i])

RECURSIVE SumAt(_, _)
SumAt(k, i) ==
    IF k = 0 THEN Zero ELSE Add(SumAt(k - 1, i), UnitPower(pg_files[k])[i])

Grid == WrittenFrec(pg_files[1])
ProductCurve == [i \in 1..Len(Grid) |-> ProductAt(Len(pg_files), i)]
SumCurve == [i \in 1..Len(Grid) |-> SumAt(Len(pg_files), i)]

ColFrec == [i \in 1..Len(stacked) |-> stacked[i][1]]
ColAnd == [i \in 1..Len(stacked) |-> stacked[i][2]]
ColOr == [i \in 1..Len(stacked) |-> stacked[i][3]]

Finished == pc \in {"returned", "raised"}

\* Names in the error log, in order.
LoggedNames == [k \in 1..Len(error_files) |-> error_files[k][1]]
Logged(name) == \E k \in 1..Len(error_files) : error_files[k][1] = name

\* The listing without its j-th file.
Omit(files, j) ==
    [k \in 1..(Len(files) - 1) |-> IF k < j THEN files[k] ELSE files[k + 1]]

\* All orders of a listing.
Orders(files) ==
    { [k \in 1..Len(files) |-> files[p[k]]] :
        p \in { q \in [1..Len(files) -> 1..Len(files)] :
                  \A a, b \in 1..Len(files) : a # b => q[a] # q[b] } }

----------------------------------------------------------------------------
(* Properties *)

\* C1: for N >= 1 valid files on one grid, the AND column of the result is
\* the pointwise product of the N unit powers divided by the integral of
\* that product, the OR column is the pointwise sum divided by the integral
\* of that sum; with one file both columns are that file's unit power; the
\* files [1,1,1], [2,2,2], [0,0,4] on [1,2,3] give AND = [0,0,2] and
\* OR = [1/3,1/3,1].
C1_ProductAndSum ==
    (pc = "returned" /\ AllValidOneGrid) =>
        /\ ColFrec = Grid
        /\ ColAnd = ArrDiv(ProductCurve, trapz(ProductCurve, Grid))
        /\ ColOr = ArrDiv(SumCurve, trapz(SumCurve, Grid))
        /\ Len(pg_files) = 1 =>
              ColAnd = UnitPower(pg_files[1]) /\ ColOr = UnitPower(pg_files[1])
        /\ { pg_files[j] : j \in 1..Len(pg_files) } = {"ones", "twos", "high"} =>
              /\ ColAnd = << Zero, Zero, Num(2) >>
              /\ ColOr = << << 1, 3 >>, << 1, 3 >>, One >>

C1_Witness ==
    /\ pc = "returned"
    /\ pg_files = << "ones", "twos", "high" >>
    /\ AllValidOneGrid
    /\ stacked = << << Num(1), Zero, << 1, 3 >> >>,
                    << Num(2), Zero, << 1, 3 >> >>,
                    << Num(3), Num(2), One >> >>

\* C4: for valid files on one grid, every order of the listing gives the
\* same self.stacked as the order that was run.
C4_OrderIndependent ==
    (pc = "returned" /\ AllValidOneGrid) =>
        \A files \in Orders(pg_files) :
            /\ calcStacked(files).raised = ""
            /\ calcStacked(files).stacked = stacked

C4_Witness ==
    /\ pc = "returned"
    /\ AllValidOneGrid
    /\ pg_files = << "high", "extra", "ones" >>
    /\ ColAnd # ColOr
    /\ calcStacked(<< "ones", "high", "extra" >>).stacked = stacked

\* Positions of the listing whose file went through the loop without being
\* logged: the files folded so far.
Folded == { j \in 1..pos : ~Logged(pg_files[j]) }

FirstFolded == CHOOSE j \in Folded : \A k \in Folded : j <= k

C10_Shape ==
    Folded # {} =>
        /\ Len(frecs) = Len(stacked_and)
        /\ Len(frecs) = Len(stacked_or)
        /\ frecs = WrittenFrec(pg_files[FirstFolded])

\* C10: once a file has been folded, frecs, stacked_and and stacked_or have
\* one length and frecs is the frequency column of the first folded file,
\* after every later file; a file that is logged changes none of the three.
C10_GridKept ==
    [][ /\ C10_Shape'
        /\ (Folded # {} /\ error_files' # error_files) =>
              UNCHANGED << frecs, stacked_and, stacked_or >> ]_vars

C10_Witness ==
    /\ pos = 3
    /\ pg_files = << "ones", "short", "high" >>
    /\ Logged("short")
    /\ frecs = << Num(1), Num(2), Num(3) >>
    /\ stacked_or = << << 1, 2 >>, << 1, 2 >>, << 5, 2 >> >>

\* A file that fails to parse in the sense of the specification: missing or
\* unreadable, non-numeric content, rows of different widths, fewer than two
\* columns, or no data.
FailsToParse(name) ==
    \/ ~Catalogue[name].readable
    \/ DataLines(name) = << >>
    \/ ~IsNumeric(name)
    \/ \E i \in 1..Len(DataLines(name)) :
          Len(DataLines(name)[i].fields) # Len(DataLines(name)[1].fields)
    \/ Len(DataLines(name)[1].fields) < 2

\* C2: a file that fails to parse is in the error log under its name, and
\* the run ends as the run over the listing without that file ends, wherever
\* the file stands in the listing.
C2_BadFileIsOmitted ==
    Finished =>
        \A j \in 1..Len(pg_files) :
            FailsToParse(pg_files[j]) =>
                /\ Logged(pg_files[j])
                /\ stacked = calcStacked(Omit(pg_files, j)).stacked
                /\ raised = calcStacked(Omit(pg_files, j)).raised

\* C3: when no file of the folder loads, the run fails with
\* NoValidInputError and self.stacked is never set.
C3_NoValidInput ==
    (Finished /\ Folded = {}) =>
        /\ pc = "raised"
        /\ raised = "NoValidInputError"
        /\ stacked = None

\* C5: in every run over valid files on one grid that produces a result,
\* the AND column and the OR column each integrate to 1 over frecs, also
\* when the unit powers have disjoint support.
C5_UnitIntegrals ==
    (pc = "returned" /\ AllValidOneGrid) =>
        /\ trapz(ColAnd, ColFrec) = One
        /\ trapz(ColOr, ColFrec) = One

\* C6: after a run, ended either way, the caller holds the object and reads
\* in error_files the skipped files in the order of the listing.
C6_ErrorLogReadable ==
    Finished =>
        /\ pc = "returned"
        /\ LoggedNames = SelectSeq(pg_files, Logged)

\* C7: a parsed file whose frequency column differs from frecs, in length or
\* in values, is appended to the error log and leaves frecs, stacked_and and
\* stacked_or as they were; the loop goes on.
C7_GridMismatchLogged ==
    [][ ( /\ pc = "loop"
          /\ pos < Len(pg_files)
          /\ frecs # None
          /\ IsTable(pg_files[pos + 1])
          /\ WrittenFrec(pg_files[pos + 1]) # frecs )
        => ( /\ Len(error_files') = Len(error_files) + 1
             /\ error_files'[Len(error_files')][1] = pg_files[pos + 1]
             /\ UNCHANGED << frecs, stacked_and, stacked_or >>
             /\ pc' = "loop" ) ]_vars

\* C8: a parsed file whose power integrates to zero or to a non-finite value
\* is logged and skipped: it is never folded.
C8_BadIntegralLogged ==
    \A j \in 1..pos :
        (IsTable(pg_files[j]) /\ BadIntegral(Integral(pg_files[j]))) =>
            Logged(pg_files[j]) /\ j \notin Folded

FinalIntegralBad ==
    /\ frecs # None
    /\ \/ BadIntegral(trapz(stacked_and, frecs))
       \/ BadIntegral(trapz(stacked_or, frecs))

\* C9: when after the loop stacked_and or stacked_or integrates to zero or
\* to a non-finite value the run fails; no result table holds nan or inf.
C9_NoNanResult ==
    /\ (Finished /\ FinalIntegralBad) => pc = "raised"
    /\ pc = "returned" =>
          \A i \in 1..Len(stacked) : \A c \in 1..3 : IsFinite(stacked[i][c])

====
